---- MODULE Spec2Model ----
(***************************************************************************)
(* Model of setup.py of indigo-stubs: the generator list_packages, the     *)
(* list(...) that drains it and the setup(...) call that receives the      *)
(* result.                                                                 *)
(*                                                                         *)
(* A string is a sequence of one-character strings, so that os.path.join,  *)
(* os.path.relpath, str.split and str.join are computed character by       *)
(* character, as posixpath computes them.  The file system is the input:   *)
(* a finite tree below <src_path>/indigo-stubs whose entries are plain     *)
(* files ("file"), directories ("dir") and directories whose listing       *)
(* fails with PermissionError ("locked").                                  *)
(***************************************************************************)
EXTENDS Naturals, Sequences, FiniteSets, TLC

VARIABLES
    fs,        \* the tree on disk: path below the walk's top (a sequence of names) -> kind
    src_path,  \* the argument of list_packages
    consumer,  \* "setup": the script's list(list_packages()); "caller": a caller iterating by hand
    gen,       \* the generator: "unstarted", "running", "suspended" (at the yield), "finished";
               \* "raised" if an exception left it, which needs an onerror handler that raises
    stack,     \* os.walk's pending directories, next one first
    cur,       \* the directory os.walk yielded last, with its subdirectories in scandir order
    value,     \* the string at the yield
    hasValue,  \* the yielded string has not been taken by the consumer yet
    out,       \* what the consumer has received so far (the list that list(...) builds)
    packages,  \* the packages argument setup() received
    declared,  \* setup() has been called
    replays,   \* number of next() calls made on the exhausted generator
    yielded,   \* history: every string the generator yielded, in order
    visited,   \* history: the directory behind each yielded string, in order
    failed     \* history: the paths whose scandir raised OSError

vars == <<fs, src_path, consumer, gen, stack, cur, value, hasValue, out,
          packages, declared, replays, yielded, visited, failed>>

----------------------------------------------------------------------------
(* Bounds of the model *)

MaxDepth == 2

MaxEntries == 3

MaxReplay == 2

----------------------------------------------------------------------------
(* Strings *)

IndigoStubs == <<"i","n","d","i","g","o","-","s","t","u","b","s">>

sep == "/"

curdir == <<".">>

pardir == <<".", ".">>

\* os.getcwd(): the directory the script is run from
Cwd == <<"/", "w">>

\* the names a directory entry can have; one of them contains a "."
Names == { <<"a">>, <<"b">>, <<"a", ".", "b">> }

\* the values of src_path: "" (the default), ".", "p/", "/q", ".."
SrcPaths == { <<>>, <<".">>, <<"p", "/">>, <<"/", "q">>, <<".", ".">> }

\* the characters that occur in the paths and names of the model
Chars == {"i", "n", "d", "g", "o", "-", "s", "t", "u", "b", "a", "p", "q", "w", ".", "/"}

Str == Seq(Chars)

StrList == Seq(Str)

\* The string functions are functions, not operators, so that an argument is
\* evaluated once, before the body, as Python evaluates it.

\* one character of s.split(c), put in front of the split of the rest
SplitCons[ch \in Chars, c \in Chars, rest \in StrList] ==
    IF ch = c THEN << <<>> >> \o rest
    ELSE << <<ch>> \o rest[1] >> \o Tail(rest)

\* s.split(c)
Split[s \in Str, c \in Chars] ==
    IF s = <<>> THEN << <<>> >>
    ELSE SplitCons[s[1], c, Split[Tail(s), c]]

\* c.join(comps)
StrJoin[c \in Str, comps \in StrList] ==
    IF comps = <<>> THEN <<>>
    ELSE IF Len(comps) = 1 THEN comps[1]
    ELSE comps[1] \o c \o StrJoin[c, Tail(comps)]

\* [x for x in comps if x]
NonEmpty[comps \in StrList] ==
    IF comps = <<>> THEN <<>>
    ELSE IF comps[1] = <<>> THEN NonEmpty[Tail(comps)]
    ELSE <<comps[1]>> \o NonEmpty[Tail(comps)]

StartsWith(s, c) == Len(s) >= 1 /\ s[1] = c

EndsWith(s, c) == Len(s) >= 1 /\ s[Len(s)] = c

\* posixpath.join(a, b)
PathJoin[a \in Str, b \in Str] ==
    IF StartsWith(b, sep) THEN b
    ELSE IF a = <<>> \/ EndsWith(a, sep) THEN a \o b
    ELSE a \o <<sep>> \o b

\* posixpath.join(*comps)
PathJoinAll[comps \in StrList] ==
    IF Len(comps) = 1 THEN comps[1]
    ELSE PathJoin[PathJoinAll[SubSeq(comps, 1, Len(comps) - 1)], comps[Len(comps)]]

\* the loop of posixpath.normpath over the components
NormComps[comps \in StrList, acc \in StrList, slashes \in 0..2] ==
    IF comps = <<>> THEN acc
    ELSE LET comp == comps[1]
             rest == Tail(comps)
         IN  IF comp = <<>> \/ comp = curdir THEN NormComps[rest, acc, slashes]
             ELSE IF \/ comp # pardir
                     \/ (slashes = 0 /\ acc = <<>>)
                     \/ (acc # <<>> /\ acc[Len(acc)] = pardir)
                  THEN NormComps[rest, Append(acc, comp), slashes]
             ELSE IF acc # <<>>
                  THEN NormComps[rest, SubSeq(acc, 1, Len(acc) - 1), slashes]
             ELSE NormComps[rest, acc, slashes]

\* the number of leading slashes posixpath.normpath keeps: 0, 1 or 2
InitialSlashes(path) ==
    IF ~StartsWith(path, sep) THEN 0
    ELSE IF /\ Len(path) >= 2 /\ path[2] = sep
            /\ ~(Len(path) >= 3 /\ path[3] = sep)
         THEN 2
    ELSE 1

\* path or dot
OrCurdir[path \in Str] == IF path = <<>> THEN curdir ELSE path

\* posixpath.normpath(path)
Normpath[path \in Str] ==
    IF path = <<>> THEN curdir
    ELSE OrCurdir[[i \in 1..InitialSlashes(path) |-> sep]
                    \o StrJoin[<<sep>>,
                               NormComps[Split[path, sep], <<>>, InitialSlashes(path)]]]

\* posixpath.abspath(path)
Abspath[path \in Str] ==
    IF StartsWith(path, sep) THEN Normpath[path]
    ELSE Normpath[PathJoin[Cwd, path]]

\* len(commonprefix([a, b])) of two lists of components
CommonLen[a \in StrList, b \in StrList] ==
    IF a = <<>> \/ b = <<>> \/ a[1] # b[1] THEN 0
    ELSE CommonLen[Tail(a), Tail(b)] + 1

\* the list posixpath.relpath joins: ".." for each step up, then the steps down
RelList[start_list \in StrList, path_list \in StrList] ==
    [k \in 1..(Len(start_list) - CommonLen[start_list, path_list]) |-> pardir]
        \o SubSeq(path_list, CommonLen[start_list, path_list] + 1, Len(path_list))

\* curdir if rel_list is empty, else join(*rel_list)
JoinRel[rel_list \in StrList] ==
    IF rel_list = <<>> THEN curdir ELSE PathJoinAll[rel_list]

\* posixpath.relpath(path, start)
Relpath[path \in Str, start \in Str] ==
    JoinRel[RelList[NonEmpty[Split[Abspath[start], sep]],
                    NonEmpty[Split[Abspath[path], sep]]]]

----------------------------------------------------------------------------
(* The file system *)

Kinds == {"file", "dir", "locked"}

\* entry.is_dir() of os.scandir: true of every directory, listable or not
IsDirKind(k) == k \in {"dir", "locked"}

\* the trees that have one more entry than f
Extend(f) ==
    UNION { { f @@ (Append(p, nm) :> k) :
                nm \in { n \in Names : Append(p, n) \notin DOMAIN f }, k \in Kinds } :
            p \in { q \in DOMAIN f : IsDirKind(f[q]) /\ Len(q) < MaxDepth } }

\* what can be at <src_path>/indigo-stubs: nothing, a plain file, a directory
Roots == { <<>>, (<<>> :> "file"), (<<>> :> "dir"), (<<>> :> "locked") }

RECURSIVE Trees(_)
Trees(n) ==
    IF n = 0 THEN Roots
    ELSE LET T == Trees(n - 1) IN T \cup UNION { Extend(f) : f \in T }

\* the orders in which scandir can list the names of S
Orders(S) ==
    LET n == Cardinality(S)
    IN  { o \in [1..n -> S] : \A i, j \in 1..n : o[i] = o[j] => i = j }

----------------------------------------------------------------------------
(* os.walk(top), as list_packages calls it: top-down, no onerror handler,   *)
(* symbolic links not followed                                              *)

\* os.path.join(src_path, "indigo-stubs")
WalkTop(sp) == PathJoin[sp, IndigoStubs]

\* mutant: a plain file and an unlistable directory list as an empty directory
ScandirOkAny(node) == node \in DOMAIN fs

\* os.scandir(top) succeeds: top is a directory that can be listed
ScandirOk(node) == node \in DOMAIN fs /\ fs[node] = "dir"

\* the names os.walk puts in dirs
SubDirs(node) ==
    { nm \in Names : Append(node, nm) \in DOMAIN fs /\ IsDirKind(fs[Append(node, nm)]) }

\* mutant: a handler that raises the error again
WalkOnErrorRaise == "raise"

\* the onerror argument of os.walk: list_packages passes none, the default None
WalkOnError == "None"

\* mutant: only the subdirectories of the top are walked (os.listdir instead of os.walk)
ChildrenTopOnly(c) ==
    IF c.node # <<>> THEN <<>>
    ELSE [i \in 1..Len(c.dirs) |->
            [path |-> PathJoin[c.path, c.dirs[i]], node |-> Append(c.node, c.dirs[i])]]

\* new_path = join(top, dirname) for each dirname of dirs, in order
Children(c) ==
    [i \in 1..Len(c.dirs) |->
        [path |-> PathJoin[c.path, c.dirs[i]], node |-> Append(c.node, c.dirs[i])]]

\* mutant: the relative path is yielded as it is, separators not replaced
PackageNameSlash(root, sp) == Relpath[root, sp]

\* mutant: os.path.relpath forgotten, the walk's own path is split and joined
PackageNameNoRelpath(root, sp) == StrJoin[<<".">>, Split[root, sep]]

\* mutant: the path is taken relative to the walk's top instead of src_path
PackageNameFromTop(root, sp) == StrJoin[<<".">>, Split[Relpath[root, WalkTop(sp)], sep]]

\* mutant: only the directory's own name is yielded
PackageNameBasename(root, sp) ==
    LET comps == Split[Relpath[root, sp], sep] IN comps[Len(comps)]

\* ".".join(os.path.relpath(root, src_path).split(os.path.sep))
PackageName(root, sp) == StrJoin[<<".">>, Split[Relpath[root, sp], sep]]

\* mutant: setup() is called as soon as a first name has arrived
ListCompleteEarly == gen = "finished" \/ out # <<>>

\* list(...) is complete when the generator is exhausted; only then is setup() called
ListComplete == gen = "finished"

\* mutant: duplicates are dropped from the list
Dedup[lst \in StrList] ==
    IF lst = <<>> THEN <<>>
    ELSE LET r == Dedup[SubSeq(lst, 1, Len(lst) - 1)]
         IN  IF \E i \in DOMAIN r : r[i] = lst[Len(lst)] THEN r
             ELSE Append(r, lst[Len(lst)])

PackagesArgDedup(lst) == Dedup[lst]

\* packages=list(list_packages()): the list is passed as it was built
PackagesArg(lst) == lst

NoDir == [path |-> <<>>, node |-> <<>>, dirs |-> <<>>]

----------------------------------------------------------------------------
Init ==
    /\ fs \in Trees(MaxEntries)
    /\ consumer \in {"setup", "caller"}
    /\ src_path \in (IF consumer = "setup" THEN {<<>>} ELSE SrcPaths)
    /\ gen = "unstarted"
    /\ stack = <<>>
    /\ cur = NoDir
    /\ value = <<>>
    /\ hasValue = FALSE
    /\ out = <<>>
    /\ packages = <<>>
    /\ declared = FALSE
    /\ replays = 0
    /\ yielded = <<>>
    /\ visited = <<>>
    /\ failed = {}

\* next(gen): the generator runs from its start, or from the yield, into os.walk's loop
Resume ==
    /\ ~hasValue
    /\ \/ /\ gen = "unstarted"
          /\ stack' = <<[path |-> WalkTop(src_path), node |-> <<>>]>>
       \/ /\ gen = "suspended"
          /\ stack' = Children(cur) \o stack
    /\ gen' = "running"
    /\ UNCHANGED <<fs, src_path, consumer, cur, value, hasValue, out, packages,
                   declared, replays, yielded, visited, failed>>

\* os.walk takes the next directory, lists it and yields it; list_packages yields its name
ScanOk ==
    /\ gen = "running"
    /\ stack # <<>>
    /\ ScandirOk(stack[1].node)
    /\ \E o \in Orders(SubDirs(stack[1].node)) :
          LET top == stack[1]
              name == PackageName(top.path, src_path)
          IN  /\ cur' = [path |-> top.path, node |-> top.node, dirs |-> o]
              /\ stack' = Tail(stack)
              /\ value' = name
              /\ hasValue' = TRUE
              /\ gen' = "suspended"
              /\ yielded' = Append(yielded, name)
              /\ visited' = Append(visited, top.node)
    /\ UNCHANGED <<fs, src_path, consumer, out, packages, declared, replays, failed>>

\* os.scandir raises OSError; with onerror None os.walk goes on to the next directory
ScanFail ==
    /\ gen = "running"
    /\ stack # <<>>
    /\ ~ScandirOk(stack[1].node)
    /\ stack' = Tail(stack)
    /\ failed' = failed \cup {stack[1].node}
    /\ gen' = IF WalkOnError = "None" THEN "running" ELSE "raised"
    /\ UNCHANGED <<fs, src_path, consumer, cur, value, hasValue, out, packages,
                   declared, replays, yielded, visited>>

\* the consumer takes the yielded string (list(...) appends it)
Receive ==
    /\ gen = "suspended"
    /\ hasValue
    /\ out' = Append(out, value)
    /\ hasValue' = FALSE
    /\ UNCHANGED <<fs, src_path, consumer, gen, stack, cur, value, packages,
                   declared, replays, yielded, visited, failed>>

\* os.walk's stack is empty: the generator returns, next(gen) raises StopIteration
Exhaust ==
    /\ gen = "running"
    /\ stack = <<>>
    /\ gen' = "finished"
    /\ UNCHANGED <<fs, src_path, consumer, stack, cur, value, hasValue, out, packages,
                   declared, replays, yielded, visited, failed>>

\* setup(..., packages=list(list_packages()), ...)
Setup ==
    /\ consumer = "setup"
    /\ ListComplete
    /\ ~declared
    /\ packages' = PackagesArg(out)
    /\ declared' = TRUE
    /\ UNCHANGED <<fs, src_path, consumer, gen, stack, cur, value, hasValue, out,
                   replays, yielded, visited, failed>>

\* mutant: next(gen) on the exhausted generator starts the walk again
ReplayRestarts ==
    /\ consumer = "caller"
    /\ gen = "finished"
    /\ replays < MaxReplay
    /\ replays' = replays + 1
    /\ gen' = "unstarted"
    /\ UNCHANGED <<fs, src_path, consumer, stack, cur, value, hasValue, out,
                   packages, declared, yielded, visited, failed>>

\* next(gen) on the exhausted generator: StopIteration again, nothing runs
Replay ==
    /\ consumer = "caller"
    /\ gen = "finished"
    /\ replays < MaxReplay
    /\ replays' = replays + 1
    /\ UNCHANGED <<fs, src_path, consumer, gen, stack, cur, value, hasValue, out,
                   packages, declared, yielded, visited, failed>>

Next == Resume \/ ScanOk \/ ScanFail \/ Receive \/ Exhaust \/ Setup \/ Replay

Spec == Init /\ [][Next]_vars

----------------------------------------------------------------------------
(* What the claims speak of, stated on the tree itself *)

Range(s) == { s[i] : i \in DOMAIN s }

Front(s) == SubSeq(s, 1, Len(s) - 1)

Prefixes(p) == { SubSeq(p, 1, k) : k \in 0..Len(p) }

\* every directory at or below <src_path>/indigo-stubs
Dirs == { p \in DOMAIN fs : IsDirKind(fs[p]) }

\* the directories that can be listed and reached through directories that can be listed
Listable == { p \in DOMAIN fs : \A q \in Prefixes(p) : fs[q] = "dir" }

\* "indigo-stubs" followed by "." and a name for each step down from the root
RECURSIVE DotName(_)
DotName(p) ==
    IF p = <<>> THEN IndigoStubs
    ELSE DotName(Front(p)) \o <<".">> \o p[Len(p)]

Done == gen = "finished"

RootIsDirectory == <<>> \in DOMAIN fs /\ IsDirKind(fs[<<>>])

NoDotInDirNames == \A p \in Dirs : \A k \in 1..Len(p) : "." \notin Range(p[k])

\* the tree indigo-stubs/, indigo-stubs/a/, indigo-stubs/a/b/
NestedTree == (<<>> :> "dir") @@ (<< <<"a">> >> :> "dir") @@ (<< <<"a">>, <<"b">> >> :> "dir")

IndigoStubsA == <<"i","n","d","i","g","o","-","s","t","u","b","s",".","a">>

IndigoStubsAB == <<"i","n","d","i","g","o","-","s","t","u","b","s",".","a",".","b">>

----------------------------------------------------------------------------
C2_DottedRelativePath ==
    /\ \A i \in DOMAIN yielded : yielded[i] = DotName(visited[i])
    /\ \A i \in DOMAIN yielded :
          visited[i] = << <<"a">>, <<"b">> >> => yielded[i] = IndigoStubsAB
    /\ (Done /\ fs = NestedTree) =>
          Range(yielded) = {IndigoStubs, IndigoStubsA, IndigoStubsAB}

C2_Witness ==
    /\ Done
    /\ fs = NestedTree
    /\ src_path = <<"/", "q">>
    /\ Len(yielded) = 3

C4_NoRootYieldsNothing ==
    (<<>> \notin DOMAIN fs \/ fs[<<>>] = "file") =>
        /\ yielded = <<>>
        /\ out = <<>>
        /\ gen # "raised"
        /\ (~ENABLED Next => gen = "finished")
        /\ (declared => packages = <<>>)

C4_Witness ==
    /\ <<>> \in DOMAIN fs
    /\ fs[<<>>] = "file"
    /\ <<>> \in failed
    /\ declared

C6_PackagesVerbatim ==
    declared => (src_path = <<>> /\ packages = yielded)

C6_Witness ==
    /\ declared
    /\ Len(packages) >= 3
    /\ \E i, j \in DOMAIN packages : i < j /\ packages[i] = packages[j]

StepsLeft ==
    3 * (Cardinality(DOMAIN fs \cup {<<>>}) - Len(visited) - Cardinality(failed))
      + (CASE gen = "finished" -> 0
           [] gen = "running" -> 1
           [] gen = "suspended" /\ hasValue -> 3
           [] OTHER -> 2)

\* C8: the iteration ends (it is never stuck before the generator is exhausted and
\* every step brings the end nearer), it yields at most as many strings as there
\* are directories, and once exhausted the generator yields nothing more
C8_FiniteNotRestartable ==
    /\ [](Len(yielded) <= Cardinality(Dirs))
    /\ [](gen # "finished" => ENABLED Next)
    /\ [][gen # "finished" => StepsLeft' < StepsLeft]_vars
    /\ [][gen = "finished" =>
             (gen' = "finished" /\ yielded' = yielded /\ ~hasValue' /\ out' = out)]_vars

C8_Witness ==
    /\ gen = "finished"
    /\ replays = MaxReplay
    /\ Len(yielded) >= 2

\* C9: a directory's name is yielded before the names of its descendants:
\* "indigo-stubs" comes first and every later name has its parent's name before it
C9_ParentFirst ==
    /\ yielded # <<>> => yielded[1] = IndigoStubs
    /\ \A i \in DOMAIN yielded : i > 1 =>
          \E j \in 1..(i - 1) : /\ visited[j] = Front(visited[i])
                                /\ yielded[j] = DotName(Front(visited[i]))
    /\ \A i, j \in DOMAIN visited :
          (visited[i] \in Prefixes(visited[j]) /\ visited[i] # visited[j]) => i < j

C9_Witness ==
    /\ Done
    /\ \E i \in DOMAIN visited : Len(visited[i]) = 2
    /\ Len(yielded) >= 3

\* C10: if no directory name contains ".", the yielded strings are pairwise distinct
C10_DistinctNames ==
    NoDotInDirNames =>
        \A i, j \in DOMAIN yielded : yielded[i] = yielded[j] => i = j

C10_Witness ==
    /\ Done
    /\ NoDotInDirNames
    /\ Len(yielded) = 4

====
